---- MODULE Spec2Model ----
(***************************************************************************)
(* search-preview: the quick-open picker with file preview.                *)
(*                                                                         *)
(* The model covers the MRU history store (EditorHistoryManager), the      *)
(* preview controller (PreviewManager, DecorationManager) and the picker   *)
(* session (QuickOpenProvider.show and its event handlers).  Every `await` *)
(* of the source is a point at which a handler is suspended: a suspended   *)
(* handler is an entry of `tasks`, and its continuation is an action of    *)
(* its own, so that the handlers interleave as the event loop allows.      *)
(*                                                                         *)
(* The editor host is modelled by what the handlers observe of it:         *)
(*   - window.activeTextEditor is `activeEditor` (a path, or None);        *)
(*   - the selection of the editor showing a document is docLine[path];    *)
(*   - showTextDocument makes the document the active editor and fires     *)
(*     onDidChangeActiveTextEditor when the active editor has changed.     *)
(* Timestamps (Date.now()) and columns are left out of the entries: no     *)
(* operation of the store reads them back.                                 *)
(***************************************************************************)
EXTENDS Integers, Sequences, FiniteSets, TLC

(***************************************************************************)
(* Bounds of the model.                                                    *)
(***************************************************************************)
\* cursor lines range over 0..MaxLine
MaxLine == 1
\* at most MaxTasks preview/accept handlers are suspended at a time
MaxTasks == 2
\* highlight decorations alive at a time (leaked ones included)
MaxDecorations == 2

(***************************************************************************)
(* Program constants.                                                      *)
(***************************************************************************)
MAX_HISTORY_SIZE == 100
maxResults == 100

None == "none"
Lines == 0..MaxLine
\* an undefined TextEditor reference
NoEditor == [path |-> None, line |-> 0, live |-> FALSE]
\* no file was active
NoFile == [path |-> None, line |-> 0]

(***************************************************************************)
(* The workspace.  Paths are atomic: asRelativePath and path.resolve are   *)
(* one-to-one inside a workspace folder, and the store only compares them. *)
(***************************************************************************)
TextFiles == {"a.ts", "b.ts"}
BinaryFiles == {"c.png"}
ExcludedFiles == {"node_modules/d.ts"}
WorkspaceFiles == TextFiles \cup BinaryFiles \cup ExcludedFiles
\* the files the user can open in an editor
OpenableFiles == TextFiles \cup ExcludedFiles

\* findFiles('**/*') then sort by (getPriority, basename): the listing below
\* is the workspace in that order.
SortedWorkspace == <<"a.ts", "b.ts", "c.png", "node_modules/d.ts">>

isBinaryFile(p) == p \in BinaryFiles
shouldExcludeFile(p) == p \in ExcludedFiles

\* The ranking reads paths and queries character by character: a query is a
\* sequence of characters, and so are the names below.
Chars(name) ==
    CASE name = "a.ts" -> <<"a", ".", "t", "s">>
      [] name = "b.ts" -> <<"b", ".", "t", "s">>
      [] name = "c.png" -> <<"c", ".", "p", "n", "g">>
      [] name = "d.ts" -> <<"d", ".", "t", "s">>
      [] name = "Ab.ts" -> <<"A", "b", ".", "t", "s">>
      [] name = "ba.ts" -> <<"b", "a", ".", "t", "s">>
      [] name = "src" -> <<"s", "r", "c">>
      [] name = "utils.ts" -> <<"u", "t", "i", "l", "s", ".", "t", "s">>
      [] name = "pkg" -> <<"p", "k", "g">>
      [] name = "app" -> <<"a", "p", "p">>
      [] name = "lib" -> <<"l", "i", "b">>
      [] name = "node_modules" ->
            <<"n", "o", "d", "e", "_", "m", "o", "d", "u", "l", "e", "s">>
      [] name = "a.log" ->
            <<"a", ".", "l", "o", "g">>
      [] name = "a.log.ts" ->
            <<"a", ".", "l", "o", "g", ".", "t", "s">>
      [] name = "build" ->
            <<"b", "u", "i", "l", "d">>
      [] name = "ws" ->
            <<"w", "s">>
      [] name = ".git" ->
            <<".", "g", "i", "t">>
      [] name = "venv" ->
            <<"v", "e", "n", "v">>
      [] name = "env" ->
            <<"e", "n", "v">>
      [] name = "dist" ->
            <<"d", "i", "s", "t">>
      [] name = "**/*.min.js" ->
            <<"*", "*", "/", "*", ".", "m", "i", "n", ".", "j", "s">>
      [] name = "**/*.log" ->
            <<"*", "*", "/", "*", ".", "l", "o", "g">>
      [] name = "**/*.lock" ->
            <<"*", "*", "/", "*", ".", "l", "o", "c", "k">>
      [] name = "**/package-lock.json" ->
            <<"*", "*", "/", "p", "a", "c", "k", "a", "g", "e", "-", "l", "o", "c", "k", ".", "j", "s", "o", "n">>

\* asRelativePath(p).split('/')
Segments(p) ==
    CASE p = "node_modules/d.ts" -> <<"node_modules", "d.ts">>
      [] p = "src/Ab.ts" -> <<"src", "Ab.ts">>
      [] p = "lib/ba.ts" -> <<"lib", "ba.ts">>
      [] p = "src/lib/utils.ts" -> <<"src", "lib", "utils.ts">>
      [] p = "lib/utils.ts" -> <<"lib", "utils.ts">>
      [] p = "src/pkg/app/utils.ts" -> <<"src", "pkg", "app", "utils.ts">>
      [] p = "src/a.log" -> <<"src", "a.log">>
      [] p = "src/build" -> <<"src", "build">>
      [] p = "build/a.ts" -> <<"build", "a.ts">>
      [] OTHER -> <<p>>

\* path.basename(p)
basename(p) == Chars(Segments(p)[Len(Segments(p))])

\* asRelativePath(p), as characters
RECURSIVE JoinSegments(_)
JoinSegments(segs) ==
    IF Len(segs) = 1 THEN Chars(segs[1])
    ELSE Chars(segs[1]) \o <<"/">> \o JoinSegments(Tail(segs))
relativePath(p) == JoinSegments(Segments(p))

\* document.getText().split('\n') of each text file
FileText(p) ==
    IF p = "a.ts" THEN << <<"x">>, <<"a", ".", "t", "s">> >>
    ELSE << <<"y">>, <<"z">> >>

\* what the user types into the picker
Queries == { <<>>, <<"t">>, <<"t", "s">>, <<"b", ".">>, <<"a", ".", "t">> }

VARIABLES
    history,               \* EditorHistoryManager.history, front = most recent
    previewMode,           \* EditorHistoryManager.previewMode
    previewedFiles,        \* EditorHistoryManager.previewedFiles
    lastOpenedFile,        \* EditorHistoryManager.lastOpenedFile
    storage,               \* globalState['editorHistory'] as last saved
    previousActiveEditor,  \* PreviewManager.previousActiveEditor
    lastHighlightDecoration, \* DecorationManager.lastHighlightDecoration is set
    liveDecorations,       \* decoration types created and not yet disposed
    activeEditor,          \* window.activeTextEditor (its document)
    docLine,               \* cursor line of the editor showing each document
    picker,                \* the quick pick: "closed", "loading", "open"
    mode,                  \* 'standard' | 'recent'
    items,                 \* quickPick.items
    value,                 \* quickPick.value, as characters
    tasks,                 \* suspended handlers
    histAtOpen,            \* history when the session opened
    prevAtOpen,            \* active file and cursor when the session opened
    accepted,              \* path accepted in this session, or None
    previewed,             \* paths peekItem registered in this session
    configuration,         \* the searchPreview.search settings
    compiledDirRegexes,    \* settingsUtils: cached directory matchers, or null
    compiledPatternRegexes \* settingsUtils: cached pattern matchers, or null

storeVars == <<history, previewMode, previewedFiles, lastOpenedFile, storage>>
previewVars == <<previousActiveEditor, lastHighlightDecoration, liveDecorations>>
hostVars == <<activeEditor, docLine>>
pickerVars == <<picker, mode, items, value>>
ghostVars == <<histAtOpen, prevAtOpen, accepted, previewed>>
settingsVars == <<configuration, compiledDirRegexes, compiledPatternRegexes>>
vars == <<storeVars, previewVars, hostVars, pickerVars, tasks, ghostVars,
          settingsVars>>

\* a cache of matchers that is still null, and one that holds matchers
NotCompiled == [compiled |-> FALSE, regexes |-> {}]
Compiled(res) == [compiled |-> TRUE, regexes |-> res]

\* the settings as package.json and the getters of SettingsManager default them
DefaultConfiguration ==
    [maxResults |-> maxResults,
     contentSearchEnabled |-> TRUE,
     excludeDirectories |-> {"node_modules", ".git", "venv", "env", "dist", "build"},
     excludePatterns |-> {"**/*.min.js", "**/*.log", "**/*.lock",
                          "**/package-lock.json"}]

\* SettingsManager.getMaxResults()
getMaxResults == configuration.maxResults

(***************************************************************************)
(* Sequence helpers.                                                       *)
(***************************************************************************)
RemoveAt(s, i) == [j \in 1..(Len(s) - 1) |-> IF j < i THEN s[j] ELSE s[j + 1]]
Take(s, n) == [j \in 1..(IF Len(s) < n THEN Len(s) ELSE n) |-> s[j]]
PathsOf(h) == {h[i].path : i \in 1..Len(h)}
PathSeq(h) == [i \in 1..Len(h) |-> h[i].path]

(***************************************************************************)
(* EditorHistoryManager                                                    *)
(***************************************************************************)
\* a store that leaves the existing entry in place
WithoutPath_Keeps(h, p) == h

\* findIndex + splice(existingIndex, 1): the history without the first entry
\* of path p
WithoutPath(h, p) ==
    LET found == {i \in 1..Len(h) : h[i].path = p}
    IN  IF found = {} THEN h
        ELSE RemoveAt(h, CHOOSE i \in found : \A j \in found : i <= j)

\* a store that never trims
Unshift_NoTrim(h, p, l) == <<[path |-> p, linePos |-> l]>> \o WithoutPath(h, p)

\* a store that appends the touched entry
Unshift_Append(h, p, l) == WithoutPath(h, p) \o <<[path |-> p, linePos |-> l]>>

\* a store that rewrites the position of every entry it keeps
Unshift_ResetsLines(h, p, l) ==
    LET kept == Take(WithoutPath(h, p), MAX_HISTORY_SIZE - 1)
    IN  <<[path |-> p, linePos |-> l]>>
            \o [i \in 1..Len(kept) |-> [kept[i] EXCEPT !.linePos = 0]]

\* unshift the new entry, then pop the tail when the list is too long
Unshift(h, p, l) ==
    LET added == <<[path |-> p, linePos |-> l]>> \o WithoutPath(h, p)
    IN  IF Len(added) > MAX_HISTORY_SIZE THEN Take(added, Len(added) - 1) ELSE added

\* a save that keeps the uris only
SavedForm_UrisOnly(h) == [i \in 1..Len(h) |->
                    [uri |-> <<"file", h[i].path>>, linePos |-> 0]]

\* saveHistory: every uri is converted to its string form scheme://path
SavedForm(h) == [i \in 1..Len(h) |->
                    [uri |-> <<"file", h[i].path>>, linePos |-> h[i].linePos]]

\* the constructor: every saved uri string is parsed back, the other fields
\* of the saved items are kept
LoadedForm(saved) == [i \in 1..Len(saved) |->
                    [path |-> saved[i].uri[2], linePos |-> saved[i].linePos]]

\* The store as a value threaded through the listeners of one event.
Store(h, lof) == [history |-> h, lastOpenedFile |-> lof]

\* updateHistory(editor): skipped for a previewed file in preview mode unless
\* it is the file that was last explicitly opened
updateHistory(s, p, l) ==
    IF previewMode /\ p \in previewedFiles /\ s.lastOpenedFile # p
    THEN s
    ELSE Store(Unshift(s.history, p, l), None)

\* forceAddToHistory(filePath, linePos)
forceAddToHistory(s, p, l) == Store(Unshift(s.history, p, l), p)

\* A TextEditor as the listeners see it: the scheme and the fsPath of its
\* document's uri and the line of its selection; scheme None is the undefined
\* editor of an event fired when no editor is active.
Editor(sch, p, l) == [scheme |-> sch, path |-> p, line |-> l]
FileEditor(p, l) == Editor("file", p, l)

\* a constructor listener that does not look at the scheme
ConstructorListener_AnyScheme(s, e) ==
    IF e.scheme # None /\ ~previewMode
    THEN updateHistory(s, e.path, e.line) ELSE s

\* the listener the constructor registers
ConstructorListener(s, e) ==
    IF e.scheme # None /\ e.scheme = "file" /\ ~previewMode
    THEN updateHistory(s, e.path, e.line) ELSE s

\* the listener registerListeners registers
RegisteredListener(s, e) ==
    IF e.scheme # None /\ e.scheme = "file"
    THEN IF \/ ~previewMode
            \/ e.path \notin previewedFiles
            \/ s.lastOpenedFile = e.path
         THEN updateHistory(s, e.path, e.line)
         ELSE s
    ELSE s

\* onDidChangeActiveTextEditor(editor): both listeners run, in the order they
\* were registered
onDidChangeActiveTextEditor(s, e) ==
    RegisteredListener(ConstructorListener(s, e), e)

\* a store that does not register previewed files
addPreviewedFile_Forgets(p) == previewedFiles

\* addPreviewedFile(filePath)
addPreviewedFile(p) == previewedFiles \cup {p}

\* a store whose preview mode can be switched on but not off
setPreviewMode_EnableOnly(m) ==
    [previewMode |-> previewMode \/ m,
     previewedFiles |-> IF ~m THEN {} ELSE previewedFiles]

\* a store that keeps the previewed files when preview mode is left
setPreviewMode_KeepsSet(m) == [previewMode |-> m, previewedFiles |-> previewedFiles]

\* setPreviewMode(mode): sets the flag; leaving preview mode clears the set of
\* previewed files
setPreviewMode(m) ==
    [previewMode |-> m, previewedFiles |-> IF ~m THEN {} ELSE previewedFiles]

(***************************************************************************)
(* The editor host.                                                        *)
(***************************************************************************)
\* showTextDocument(p): the change event fires when the active editor changes
StoreAfterShow(s, p, l) ==
    IF activeEditor # p THEN onDidChangeActiveTextEditor(s, FileEditor(p, l)) ELSE s

\* previousActiveEditor is a reference to the TextEditor object that was active
\* when the session opened, not a copy of it: while that editor is still the
\* one showing (live), a selection applied to it is seen through the
\* reference; once another document replaces it the object keeps its last
\* selection.
PrevAfterShow(p, withSel, sel) ==
    IF ~previousActiveEditor.live THEN previousActiveEditor
    ELSE IF p # activeEditor THEN [previousActiveEditor EXCEPT !.live = FALSE]
    ELSE IF ~withSel THEN previousActiveEditor
    ELSE [previousActiveEditor EXCEPT !.line = sel]

(***************************************************************************)
(* DecorationManager                                                       *)
(***************************************************************************)
Leaked == liveDecorations - (IF lastHighlightDecoration THEN 1 ELSE 0)

\* clearDecorations: disposes the decoration the manager still refers to
liveAfterClearDecorations == Leaked

\* highlightLine: creates a decoration type and overwrites the reference
liveAfterHighlightLine == liveDecorations + 1

\* liveDecorations counts the decorations of the current session: those of
\* earlier sessions that nothing refers to any more are not followed further
Referenced == IF lastHighlightDecoration THEN 1 ELSE 0

(***************************************************************************)
(* Quick pick items.                                                       *)
(***************************************************************************)
\* item.data; an undefined searchText is the empty sequence
FileItem(p, l, q) == [filePath |-> p, linePos |-> l, type |-> "file", searchText |-> q]
ContentItem(p, l, q) ==
    [filePath |-> p, linePos |-> l, type |-> "content", searchText |-> q]

\* the order of the sort in loadInitialFilesList: getPriority of the
\* extension (.ts before .png), then the basename
PriorityOrder ==
    <<"a.ts", "src/Ab.ts", "b.ts", "lib/ba.ts", "node_modules/d.ts",
      "utils.ts", "lib/utils.ts", "src/lib/utils.ts", "src/pkg/app/utils.ts",
      "c.png">>
sortByPriority(files) ==
    SelectSeq(PriorityOrder, LAMBDA f : \E i \in 1..Len(files) : files[i] = f)

\* loadInitialFilesList: the visible editors first, then the files found,
\* without binary and excluded ones, sorted and cut at maxResults
InitialFilesListOf(found, visible) ==
    LET seen(s, i) == \E j \in 1..(i - 1) : s[j] = s[i]
        idx == SelectSeq([i \in 1..Len(visible) |-> i], LAMBDA i :
                   ~seen(visible, i) /\ ~shouldExcludeFile(visible[i]))
        open == [k \in 1..Len(idx) |-> visible[idx[k]]]
        allFiles == Take(found, getMaxResults * 2)
        filtered == Take(sortByPriority(SelectSeq(allFiles, LAMBDA f :
                        /\ f \notin {open[i] : i \in 1..Len(open)}
                        /\ ~isBinaryFile(f)
                        /\ ~shouldExcludeFile(f))), getMaxResults)
        files == open \o filtered
    IN  [i \in 1..Len(files) |-> FileItem(files[i], 0, <<>>)]

\* loadInitialFilesList in a session: one visible editor, the active one
InitialFilesList ==
    InitialFilesListOf(SortedWorkspace,
                       IF activeEditor # None THEN <<activeEditor>> ELSE <<>>)

\* loadRecentEditorsList(active): the history entries, most recent first,
\* without the editor that was active when the list was requested
RecentEditorsList_OldestFirst(active) ==
    LET shown == SelectSeq(history, LAMBDA e : e.path # active)
    IN  [i \in 1..Len(shown) |->
            FileItem(shown[Len(shown) + 1 - i].path,
                     shown[Len(shown) + 1 - i].linePos, <<>>)]
RecentEditorsList(active) ==
    LET shown == SelectSeq(history, LAMBDA e : e.path # active)
    IN  [i \in 1..Len(shown) |-> FileItem(shown[i].path, shown[i].linePos, <<>>)]

(***************************************************************************)
(* Ranking (searchUtils.ts).  fuzzysort is a library: of it the model      *)
(* keeps the matching rule (the characters of the query occur in the       *)
(* target, in order) and a score that grows with the share of the target   *)
(* the query covers, 100 for an exact match.  The multipliers of the       *)
(* source are kept in tenths, so that adjusted scores stay integers: every *)
(* adjusted score is the raw score times six factors.                      *)
(***************************************************************************)
RECURSIVE IsSubsequence(_, _)
IsSubsequence(q, t) ==
    IF q = <<>> THEN TRUE
    ELSE IF t = <<>> THEN FALSE
    ELSE IF Head(q) = Head(t) THEN IsSubsequence(Tail(q), Tail(t))
    ELSE IsSubsequence(q, Tail(t))

FuzzyScore(q, t) == (100 * Len(q)) \div Len(t)

\* fuzzysort compares the lower-cased query with the lower-cased target
toLowerCase(s) ==
    [i \in 1..Len(s) |-> CASE s[i] = "A" -> "a" [] s[i] = "B" -> "b" [] OTHER -> s[i]]

\* Array.prototype.sort((a, b) => b.score - a.score): descending and stable
RECURSIVE SortByScore(_)
SortByScore(rs) ==
    IF rs = <<>> THEN <<>>
    ELSE LET rest == SortByScore(Tail(rs))
             x == Head(rs)
             k == Cardinality({i \in 1..Len(rest) : rest[i].score > x.score})
         IN  SubSeq(rest, 1, k) \o <<x>> \o SubSeq(rest, k + 1, Len(rest))

\* search.split(' '): the words of a query
SplitWords(q) ==
    LET sp == {0, Len(q) + 1} \cup {i \in 1..Len(q) : q[i] = " "}
    IN  {SubSeq(q, i + 1, j - 1) : <<i, j>> \in
            {c \in sp \X sp : /\ c[1] + 1 < c[2]
                               /\ ~\E k \in sp : c[1] < k /\ k < c[2]}}

\* the matching rule of fuzzysort: every word of the query occurs in the
\* target in order, whatever the order of the words
fuzzyMatch_Any(q, t) == TRUE
fuzzyMatch(q, t) ==
    \A w \in SplitWords(q) : IsSubsequence(toLowerCase(w), toLowerCase(t))

\* the key of every target: basename or path
basenameOf(targets) == [f \in {targets[i] : i \in 1..Len(targets)} |-> basename(f)]
pathOf(targets) == [f \in {targets[i] : i \in 1..Len(targets)} |-> relativePath(f)]

\* fuzzysort.go(q, targets, {key}): the matching targets, best first
go(q, targets, key) ==
    LET m == SelectSeq(targets, LAMBDA f : fuzzyMatch(q, key[f]))
    IN  SortByScore([i \in 1..Len(m) |->
                        [uri |-> m[i], score |-> FuzzyScore(q, key[m[i]])]])

\* s.includes(sub)
Includes(s, sub) ==
    \E i \in 0..(Len(s) - Len(sub)) : SubSeq(s, i + 1, i + Len(sub)) = sub

\* relativePath.includes('/dir/'): dir is a directory of the path below its
\* first segment
hasDirectory(p, dirs) ==
    \E i \in 2..(Len(Segments(p)) - 1) : Segments(p)[i] \in dirs

\* isLikelyLibraryPath: the one-segment entries of libraryDirs and
\* site-packages (the others name directories no path of the workspace has)
isLikelyLibraryPath(p) ==
    hasDirectory(p, {"lib", "libs", "vendor", "node_modules", "dist", "build",
                     "venv", "env", "site-packages"})

commonUtilityNames ==
    { <<"_", "_", "i", "n", "i", "t", "_", "_">>, <<"u", "t", "i", "l", "s">>,
      <<"h", "e", "l", "p", "e", "r", "s">>, <<"c", "o", "m", "m", "o", "n">>,
      <<"c", "o", "r", "e">>, <<"b", "a", "s", "e">>,
      <<"c", "o", "n", "f", "i", "g">> }

pathDepth(p) == Len(Segments(p))

\* processResults: filename.includes(name) for one of commonUtilityNames
isUtilityName(p) == \E n \in commonUtilityNames : Includes(basename(p), n)

\* processResults: the multiplier for utility files, in tenths
utilityFactor_DepthOnly(p) ==
    IF isUtilityName(p) /\ pathDepth(p) > 3 THEN 7 ELSE 10
utilityFactor(p) ==
    IF isUtilityName(p) /\ (pathDepth(p) > 3 \/ isLikelyLibraryPath(p))
    THEN 7 ELSE 10

\* processResults: the multipliers for excluded files, library paths, the
\* named libraries and the depth, in tenths
pathFactors(p) ==
    (IF shouldExcludeFile(p) THEN 1 ELSE 10)
        * (IF isLikelyLibraryPath(p) THEN 2 ELSE 10)
        * (IF hasDirectory(p, {"isort", "pylint", "autopep8", "black",
                               "flake8", "mypy"}) THEN 1 ELSE 10)
        * (IF pathDepth(p) <= 2 THEN 15
           ELSE IF pathDepth(p) <= 3 THEN 13
           ELSE IF pathDepth(p) >= 6 THEN 7 ELSE 10)

\* processResults: the contextual adjustments of one result, in tenths
AdjustedScore(p, raw, isBasename) ==
    raw * pathFactors(p) * utilityFactor(p) * (IF isBasename THEN 20 ELSE 10)

\* the Map of combined results: keys in insertion order (basename results,
\* then the path results not yet present), each with its higher score
Combined_Sum(b, p) ==
    LET inB(f) == \E i \in 1..Len(b) : b[i].uri = f
        pScore(f) == (CHOOSE r \in {p[i] : i \in 1..Len(p)} : r.uri = f).score
        both(r) == IF \E i \in 1..Len(p) : p[i].uri = r.uri
                   THEN [r EXCEPT !.score = @ + pScore(r.uri)] ELSE r
    IN  [i \in 1..Len(b) |-> both(b[i])] \o SelectSeq(p, LAMBDA r : ~inB(r.uri))
Combined(b, p) ==
    LET inB(f) == \E i \in 1..Len(b) : b[i].uri = f
        pScore(f) == (CHOOSE r \in {p[i] : i \in 1..Len(p)} : r.uri = f).score
        best(r) == IF (\E i \in 1..Len(p) : p[i].uri = r.uri) /\ pScore(r.uri) > r.score
                   THEN [r EXCEPT !.score = pScore(r.uri)] ELSE r
    IN  [i \in 1..Len(b) |-> best(b[i])] \o SelectSeq(p, LAMBDA r : ~inB(r.uri))

\* fuzzySearchFiles(files, searchText)
fuzzySearchFiles(files, q) ==
    LET basenameResults == go(q, files, basenameOf(files))
        pathResults == go(q, files, pathOf(files))
        b == [i \in 1..Len(basenameResults) |->
                [uri |-> basenameResults[i].uri,
                 score |-> AdjustedScore(basenameResults[i].uri,
                                         basenameResults[i].score, TRUE)]]
        p == [i \in 1..Len(pathResults) |->
                [uri |-> pathResults[i].uri,
                 score |-> AdjustedScore(pathResults[i].uri,
                                         pathResults[i].score, FALSE)]]
    IN  SortByScore(Combined(b, p))

\* searchInFileContents, one file: fuzzysort over its lines (limit 5), every
\* match reported at lines.indexOf(its text)
ContentMatches(p, q) ==
    LET lines == FileText(p)
        matched == SelectSeq([i \in 1..Len(lines) |-> i],
                             LAMBDA i : IsSubsequence(q, lines[i]))
        ranked == Take(SortByScore([j \in 1..Len(matched) |->
                          [uri |-> matched[j],
                           score |-> FuzzyScore(q, lines[matched[j]])]]), 5)
        indexOf(t) == CHOOSE i \in 1..Len(lines) :
                          lines[i] = t /\ \A j \in 1..(i - 1) : lines[j] # t
    IN  [j \in 1..Len(ranked) |->
            ContentItem(p, indexOf(lines[ranked[j].uri]) - 1, q)]

\* searchInFileContents(files, searchText, contentResults)
RECURSIVE searchInFileContents(_, _, _)
searchInFileContents(files, q, contentResults) ==
    IF files = <<>> THEN contentResults
    ELSE IF isBinaryFile(Head(files)) \/ shouldExcludeFile(Head(files))
    THEN searchInFileContents(Tail(files), q, contentResults)
    ELSE LET found == contentResults \o ContentMatches(Head(files), q)
         IN  IF Len(found) >= getMaxResults \div 2 THEN found
             ELSE searchInFileContents(Tail(files), q, found)

\* getConfiguration('searchPreview.search').get('contentSearchEnabled', true)
isContentSearchEnabled == configuration.contentSearchEnabled

\* handleStandardSearch: the ranking of the files findFiles found
scoredMatchesOf_CutFirst(found, q) ==
    fuzzySearchFiles(Take(SelectSeq(found, LAMBDA f :
                        ~isBinaryFile(f) /\ ~shouldExcludeFile(f)), getMaxResults), q)
scoredMatchesOf(found, q) ==
    fuzzySearchFiles(SelectSeq(found, LAMBDA f :
                        ~isBinaryFile(f) /\ ~shouldExcludeFile(f)), q)
scoredMatches(q) == scoredMatchesOf(SortedWorkspace, q)

\* handleStandardSearch: the files whose contents are searched
textFilesToSearchOf(found, q) ==
    IF Len(q) >= 3 /\ isContentSearchEnabled
    THEN LET top == Take(scoredMatchesOf(found, q), 20)
         IN  [i \in 1..Len(top) |-> top[i].uri]
    ELSE <<>>
textFilesToSearch(q) == textFilesToSearchOf(SortedWorkspace, q)

\* handleStandardSearch(quickPick, value): the items it assigns
StandardSearchItemsOf(found, q) ==
    LET m == scoredMatchesOf(found, q)
        filenameResults == [i \in 1..Len(m) |-> FileItem(m[i].uri, 0, q)]
        contentResults == searchInFileContents(textFilesToSearchOf(found, q), q, <<>>)
    IN  Take(filenameResults \o contentResults, getMaxResults)
StandardSearchItems(q) == StandardSearchItemsOf(SortedWorkspace, q)

\* handleRecentEditorsSearch(quickPick, value): the items it assigns
RecentSearchItems(q) ==
    LET shown == SelectSeq(history, LAMBDA e : e.path # activeEditor)
        basenameResults == go(q, PathSeq(shown), basenameOf(PathSeq(shown)))
        pathResults == go(q, PathSeq(shown), pathOf(PathSeq(shown)))
        b == [i \in 1..Len(basenameResults) |->
                [basenameResults[i] EXCEPT !.score = @ * 2]]
        sorted == SortByScore(Combined(b, pathResults))
        linePos(f) == (CHOOSE e \in {shown[i] : i \in 1..Len(shown)} :
                           e.path = f).linePos
    IN  [i \in 1..Len(sorted) |-> FileItem(sorted[i].uri, linePos(sorted[i].uri), q)]

(***************************************************************************)
(* Suspended handlers.                                                     *)
(***************************************************************************)
\* kind: the await the handler is suspended at; latest: the handler was
\* started by the most recent onDidChangeActive event
Task(k, p, l) == [kind |-> k, path |-> p, line |-> l, query |-> <<>>, latest |-> FALSE]
PeekTask(p, l) == [Task("peek", p, l) EXCEPT !.latest = TRUE]
SearchTask(k, q) == [Task(k, None, 0) EXCEPT !.query = q]
\* a later onDidChangeActive event: the handlers of earlier events are stale
Superseded(T) ==
    {IF t.kind = "peek" THEN [t EXCEPT !.latest = FALSE] ELSE t : t \in T}

\* The host serves showTextDocument requests in the order they were made: a
\* request made while the restore of the previous editor is still under way
\* takes effect after it.
ShowQueueFree == \A r \in tasks : r.kind # "restore"
\* openSelectedFile suspended at its showTextDocument; latest: the request was
\* made while no restore was under way, so a restore started since is served
\* after it
ShowTask(p, l) == [Task("show", p, l) EXCEPT !.latest = ShowQueueFree]
PendingPeeks == Cardinality({t \in tasks : t.kind = "peek"})

Init ==
    /\ history = <<>>
    /\ previewMode = FALSE
    /\ previewedFiles = {}
    /\ lastOpenedFile = None
    /\ storage = <<>>
    /\ previousActiveEditor = NoEditor
    /\ lastHighlightDecoration = FALSE
    /\ liveDecorations = 0
    /\ activeEditor = None
    /\ docLine = [f \in OpenableFiles |-> 0]
    /\ picker = "closed"
    /\ mode = "standard"
    /\ items = <<>>
    /\ value = <<>>
    /\ tasks = {}
    /\ histAtOpen = <<>>
    /\ prevAtOpen = NoFile
    /\ accepted = None
    /\ previewed = {}
    /\ configuration = DefaultConfiguration
    /\ compiledDirRegexes = NotCompiled
    /\ compiledPatternRegexes = NotCompiled

(***************************************************************************)
(* The user, outside a session: activates another file, moves the cursor.  *)
(* The session bookkeeping is re-based on the state the user leaves.       *)
(***************************************************************************)
Rebase ==
    /\ liveDecorations' = Referenced
    /\ histAtOpen' = history'
    /\ prevAtOpen' = NoFile
    /\ accepted' = None
    /\ previewed' = {}

UserActivate(p) ==
    /\ picker = "closed"
    /\ tasks = {}
    /\ p # activeEditor
    /\ LET s == StoreAfterShow(Store(history, lastOpenedFile), p, docLine[p])
       IN  /\ history' = s.history
           /\ lastOpenedFile' = s.lastOpenedFile
           /\ storage' = SavedForm(s.history)
    /\ activeEditor' = p
    /\ previousActiveEditor' = PrevAfterShow(p, FALSE, 0)
    /\ Rebase
    /\ UNCHANGED <<previewMode, previewedFiles, lastHighlightDecoration,
                   docLine, pickerVars, tasks>>
    /\ UNCHANGED settingsVars

UserMoveCursor(l) ==
    /\ picker = "closed"
    /\ tasks = {}
    /\ activeEditor # None
    /\ l # docLine[activeEditor]
    /\ docLine' = [docLine EXCEPT ![activeEditor] = l]
    /\ previousActiveEditor' = PrevAfterShow(activeEditor, TRUE, l)
    /\ UNCHANGED <<storeVars, lastHighlightDecoration,
                   activeEditor, pickerVars, tasks>>
    /\ Rebase
    /\ UNCHANGED settingsVars

(***************************************************************************)
(* QuickOpenProvider.show(mode), up to the first await.                    *)
(***************************************************************************)
Show(m) ==
    /\ picker = "closed"
    /\ tasks = {}
    \* previewManager.setPreviewMode(true)
    /\ previewMode' = setPreviewMode(TRUE).previewMode
    /\ previewedFiles' = setPreviewMode(TRUE).previewedFiles
    /\ previousActiveEditor' =
          IF activeEditor = None THEN NoEditor
          ELSE [path |-> activeEditor, line |-> docLine[activeEditor], live |-> TRUE]
    \* quickPick.show(); the initial list is being loaded
    /\ picker' = "loading"
    /\ mode' = m
    /\ items' = <<>>
    /\ value' = <<>>
    /\ tasks' = {Task("load", activeEditor, 0)}
    /\ histAtOpen' = history
    /\ prevAtOpen' = IF activeEditor = None THEN NoFile
                     ELSE [path |-> activeEditor, line |-> docLine[activeEditor]]
    /\ accepted' = None
    /\ previewed' = {}
    /\ liveDecorations' = Referenced
    /\ UNCHANGED <<history, lastOpenedFile, storage, lastHighlightDecoration,
                   hostVars>>
    /\ UNCHANGED settingsVars

\* the initial list has loaded; show() registers the remaining handlers
LoadDone(t) ==
    /\ t \in tasks
    /\ t.kind = "load"
    /\ items' = IF mode = "standard" THEN InitialFilesList
                ELSE RecentEditorsList(t.path)
    /\ picker' = IF picker = "loading" THEN "open" ELSE picker
    /\ tasks' = tasks \ {t}
    /\ UNCHANGED <<storeVars, previewVars, hostVars, mode, value, ghostVars>>
    /\ UNCHANGED settingsVars

(***************************************************************************)
(* onDidChangeValue(value), up to its first await.  The handler is          *)
(* registered once the initial list has loaded.                            *)
(***************************************************************************)
ChangeValue(q) ==
    /\ picker = "open"
    /\ q # value
    /\ value' = q
    /\ IF Len(q) < 2
       THEN \* loadInitialFilesList / loadRecentEditorsList
            /\ Cardinality(tasks) < MaxTasks
            /\ Task("load", activeEditor, 0) \notin tasks
            /\ tasks' = tasks \cup {Task("load", activeEditor, 0)}
            /\ items' = items
       ELSE IF mode = "standard"
       THEN \* handleStandardSearch: await findFiles
            /\ Cardinality(tasks) < MaxTasks
            /\ \A r \in tasks : r.query # q
            /\ tasks' = tasks \cup {SearchTask("search", q)}
            /\ items' = items
       ELSE \* handleRecentEditorsSearch has no await
            /\ items' = RecentSearchItems(q)
            /\ tasks' = tasks
    /\ UNCHANGED <<storeVars, previewVars, hostVars, picker, mode, ghostVars>>
    /\ UNCHANGED settingsVars

\* handleStandardSearch resumes with the files: the names are ranked; the
\* contents of the best files are searched next, or the items are assigned
FindFilesDone(t) ==
    /\ t \in tasks
    /\ t.kind = "search"
    /\ IF textFilesToSearch(t.query) # <<>>
       THEN \* searchInFileContents: await openTextDocument
            /\ tasks' = (tasks \ {t}) \cup {SearchTask("content", t.query)}
            /\ items' = items
       ELSE /\ tasks' = tasks \ {t}
            /\ items' = StandardSearchItems(t.query)
    /\ UNCHANGED <<storeVars, previewVars, hostVars, picker, mode, value, ghostVars>>
    /\ UNCHANGED settingsVars

\* handleStandardSearch resumes with the content matches and assigns the items
ContentSearchDone(t) ==
    /\ t \in tasks
    /\ t.kind = "content"
    /\ tasks' = tasks \ {t}
    /\ items' = StandardSearchItems(t.query)
    /\ UNCHANGED <<storeVars, previewVars, hostVars, picker, mode, value, ghostVars>>
    /\ UNCHANGED settingsVars

(***************************************************************************)
(* onDidChangeActive(items): clearDecorations(), then peekItem(items) up   *)
(* to its first await.  k = 0 stands for an empty list of active items.    *)
(***************************************************************************)
ChangeActive(k) ==
    /\ picker = "open"
    /\ k \in 0..Len(items)
    /\ lastHighlightDecoration' = FALSE
    /\ liveDecorations' = liveAfterClearDecorations
    /\ IF k = 0 \/ isBinaryFile(items[IF k = 0 THEN 1 ELSE k].filePath)
       THEN /\ tasks' = Superseded(tasks)
            /\ UNCHANGED <<previewedFiles, previewed>>
       ELSE /\ Cardinality(tasks) < MaxTasks
            /\ \A r \in tasks : ~(/\ r.kind = "peek"
                                  /\ r.path = items[k].filePath
                                  /\ r.line = items[k].linePos)
            /\ Leaked + PendingPeeks < MaxDecorations
            \* editorHistoryManager.addPreviewedFile(filePath)
            /\ previewedFiles' = addPreviewedFile(items[k].filePath)
            \* await openTextDocument
            /\ tasks' = Superseded(tasks)
                            \cup {PeekTask(items[k].filePath, items[k].linePos)}
            /\ previewed' = previewed \cup {items[k].filePath}
    /\ UNCHANGED <<history, previewMode, lastOpenedFile, storage,
                   previousActiveEditor, hostVars, pickerVars,
                   histAtOpen, prevAtOpen, accepted>>
    /\ UNCHANGED settingsVars

\* peekItem resumes: the document opened, showTextDocument(preview, selection)
\* made it the active editor, the line is highlighted
PeekDone(t) ==
    /\ t \in tasks
    /\ t.kind = "peek"
    /\ ShowQueueFree
    /\ LET p == t.path
           l == t.line
           s == StoreAfterShow(Store(history, lastOpenedFile), p, l)
       IN  /\ history' = s.history
           /\ lastOpenedFile' = s.lastOpenedFile
           /\ storage' = SavedForm(s.history)
           /\ activeEditor' = p
           /\ docLine' = [docLine EXCEPT ![p] = l]
           /\ previousActiveEditor' = PrevAfterShow(p, TRUE, l)
    /\ lastHighlightDecoration' = TRUE
    /\ liveDecorations' = liveAfterHighlightLine
    /\ tasks' = tasks \ {t}
    /\ UNCHANGED <<previewMode, previewedFiles, pickerVars, ghostVars>>
    /\ UNCHANGED settingsVars

\* peekItem resumes with openTextDocument rejected: caught and logged
PeekFail(t) ==
    /\ t \in tasks
    /\ t.kind = "peek"
    /\ tasks' = tasks \ {t}
    /\ UNCHANGED <<storeVars, previewVars, hostVars, pickerVars, ghostVars>>
    /\ UNCHANGED settingsVars

(***************************************************************************)
(* onDidAccept: openSelectedFile(selectedItem.data) up to its first await. *)
(* One acceptance per session.                                             *)
(***************************************************************************)
Accept(k) ==
    /\ picker = "open"
    /\ accepted = None
    /\ k \in 1..Len(items)
    /\ Cardinality(tasks) < MaxTasks
    /\ LET p == items[k].filePath
           l == items[k].linePos
           s == forceAddToHistory(Store(history, lastOpenedFile), p, l)
       IN  \* editorHistoryManager.setPreviewMode(false)
           /\ previewMode' = setPreviewMode(FALSE).previewMode
           /\ previewedFiles' = setPreviewMode(FALSE).previewedFiles
           /\ history' = s.history
           /\ lastOpenedFile' = s.lastOpenedFile
           /\ storage' = SavedForm(s.history)
           /\ accepted' = p
           /\ IF isBinaryFile(p)
              THEN \* vscode.open shows it in a non-text editor
                   /\ activeEditor' = None
                   /\ previousActiveEditor' = NoEditor
                   /\ tasks' = tasks
              ELSE \* await openTextDocument
                   /\ tasks' = tasks \cup {Task("accept", p, l)}
                   /\ UNCHANGED <<activeEditor, previousActiveEditor>>
    /\ UNCHANGED <<lastHighlightDecoration, liveDecorations, docLine, pickerVars,
                   histAtOpen, prevAtOpen, previewed>>
    /\ UNCHANGED settingsVars

\* openSelectedFile resumes with the document: await showTextDocument
AcceptOpened(t) ==
    /\ t \in tasks
    /\ t.kind = "accept"
    /\ tasks' = (tasks \ {t}) \cup {ShowTask(t.path, t.line)}
    /\ UNCHANGED <<storeVars, previewVars, hostVars, pickerVars, ghostVars>>
    /\ UNCHANGED settingsVars

\* openSelectedFile resumes: the document is shown (preview: false), the
\* cursor is positioned, the reference to the previous editor is dropped
AcceptDone(t) ==
    /\ t \in tasks
    /\ t.kind = "show"
    /\ t.latest \/ ShowQueueFree
    /\ LET p == t.path
           s == StoreAfterShow(Store(history, lastOpenedFile), p, docLine[p])
       IN  /\ history' = s.history
           /\ lastOpenedFile' = s.lastOpenedFile
           /\ storage' = SavedForm(s.history)
           /\ activeEditor' = p
           /\ docLine' = [docLine EXCEPT ![p] = t.line]
    /\ previousActiveEditor' = NoEditor
    /\ tasks' = tasks \ {t}
    /\ UNCHANGED <<previewMode, previewedFiles, lastHighlightDecoration,
                   liveDecorations, pickerVars, ghostVars>>
    /\ UNCHANGED settingsVars

\* openSelectedFile resumes with the open rejected: an error message is shown
AcceptFail(t) ==
    /\ t \in tasks
    /\ t.kind \in {"accept", "show"}
    /\ tasks' = tasks \ {t}
    /\ UNCHANGED <<storeVars, previewVars, hostVars, pickerVars, ghostVars>>
    /\ UNCHANGED settingsVars

(***************************************************************************)
(* onDidHide: setPreviewMode(false) (which starts restoreActiveEditor),    *)
(* clearDecorations(), dispose().                                          *)
(***************************************************************************)
Hide ==
    /\ picker # "closed"
    /\ previewMode' = setPreviewMode(FALSE).previewMode
    /\ previewedFiles' = setPreviewMode(FALSE).previewedFiles
    \* restoreActiveEditor: await showTextDocument(previousActiveEditor.document)
    /\ tasks' = IF previousActiveEditor # NoEditor
                THEN tasks \cup {Task("restore", previousActiveEditor.path, 0)}
                ELSE tasks
    /\ lastHighlightDecoration' = FALSE
    /\ liveDecorations' = liveAfterClearDecorations
    /\ picker' = "closed"
    /\ UNCHANGED <<history, lastOpenedFile, storage, previousActiveEditor,
                   hostVars, mode, items, value, ghostVars>>
    /\ UNCHANGED settingsVars

\* restoreActiveEditor resumes: the previous document is the active editor
\* again and gets the selection of the remembered editor.  Reading the
\* selection of a reference that was dropped in the meantime throws, which
\* the handler catches.
RestoreDone(t) ==
    /\ t \in tasks
    /\ t.kind = "restore"
    /\ \A r \in tasks : ~(r.kind = "show" /\ r.latest)
    /\ LET p == t.path
           s == StoreAfterShow(Store(history, lastOpenedFile), p, docLine[p])
       IN  /\ history' = s.history
           /\ lastOpenedFile' = s.lastOpenedFile
           /\ storage' = SavedForm(s.history)
           /\ activeEditor' = p
           /\ docLine' = IF previousActiveEditor = NoEditor THEN docLine
                         ELSE [docLine EXCEPT ![p] = previousActiveEditor.line]
    /\ previousActiveEditor' = NoEditor
    /\ tasks' = tasks \ {t}
    /\ UNCHANGED <<previewMode, previewedFiles, lastHighlightDecoration,
                   liveDecorations, pickerVars, ghostVars>>
    /\ UNCHANGED settingsVars

\* restoreActiveEditor resumes with showTextDocument rejected: logged, the
\* reference is kept
RestoreFail_Retries(t) ==
    /\ t \in tasks
    /\ t.kind = "restore"
    /\ tasks' = (tasks \ {t}) \cup {Task("restore", t.path, 1)}
    /\ UNCHANGED <<storeVars, previewVars, hostVars, pickerVars, ghostVars>>
    /\ UNCHANGED settingsVars
RestoreFail(t) ==
    /\ t \in tasks
    /\ t.kind = "restore"
    /\ tasks' = tasks \ {t}
    /\ UNCHANGED <<storeVars, previewVars, hostVars, pickerVars, ghostVars>>
    /\ UNCHANGED settingsVars

Next ==
    \/ \E p \in TextFiles : UserActivate(p)
    \/ \E l \in Lines : UserMoveCursor(l)
    \/ \E m \in {"standard", "recent"} : Show(m)
    \/ \E t \in tasks : LoadDone(t)
    \/ \E k \in 0..Cardinality(WorkspaceFiles) : ChangeActive(k)
    \/ \E t \in tasks : PeekDone(t)
    \/ \E k \in 1..Cardinality(WorkspaceFiles) : Accept(k)
    \/ \E t \in tasks : AcceptOpened(t)
    \/ \E t \in tasks : AcceptDone(t)
    \/ Hide
    \/ \E t \in tasks : RestoreDone(t)

\* every document open succeeds
Spec == Init /\ [][Next]_vars

NextFail ==
    \/ Next
    \/ \E t \in tasks : PeekFail(t)
    \/ \E t \in tasks : AcceptFail(t)
    \/ \E t \in tasks : RestoreFail(t)

\* a document open may be rejected (the file was deleted or is unreadable)
FailSpec == Init /\ [][NextFail]_vars

NextSearch ==
    \/ \E p \in TextFiles : UserActivate(p)
    \/ \E m \in {"standard", "recent"} : Show(m)
    \/ \E t \in tasks : LoadDone(t)
    \/ \E q \in Queries : ChangeValue(q)
    \/ \E t \in tasks : FindFilesDone(t)
    \/ \E t \in tasks : ContentSearchDone(t)
    \/ Hide
    \/ \E t \in tasks : RestoreDone(t)

\* sessions in which the user types queries and dismisses the picker
SearchSpec == Init /\ [][NextSearch]_vars

NextRecent ==
    \/ \E p \in TextFiles : UserActivate(p)
    \/ Show("recent")
    \/ \E t \in tasks : LoadDone(t)
    \/ \E q \in Queries : ChangeValue(q)
    \/ \E k \in 0..Cardinality(WorkspaceFiles) : ChangeActive(k)
    \/ \E t \in tasks : PeekDone(t)
    \/ Hide
    \/ \E t \in tasks : RestoreDone(t)

\* sessions of the recent-editors command in which the user types queries
\* and moves through the list, and dismisses the picker
RecentSpec == Init /\ [][NextRecent]_vars

NextSearchOpened ==
    \/ NextSearch
    \/ \E p \in ExcludedFiles : UserActivate(p)

\* the same sessions, of a user who also opens files of excluded directories
SearchOpenedSpec == Init /\ [][NextSearchOpened]_vars

(***************************************************************************)
(* The History Store on its own: an EditorHistoryManager constructed from  *)
(* the stored value and driven through its listeners and its public        *)
(* methods.  The stored value is empty (first run) or the full history an  *)
(* earlier run saved.                                                      *)
(***************************************************************************)
StoreFileName(i) == "f" \o ToString(i) \o ".ts"

\* MAX_HISTORY_SIZE entries, the most recent first
FullHistory ==
    [i \in 1..MAX_HISTORY_SIZE |-> [path |-> StoreFileName(i), linePos |-> 0]]

\* the files touched: the tail of the full history and two files without entry
StorePaths == {StoreFileName(MAX_HISTORY_SIZE), "a.ts", "b.ts"}

\* the file registered as previewed
StorePreviewed == {"a.ts"}

\* the editors of the events: of a file, of an untitled document, undefined
StoreEditors ==
    {FileEditor(p, l) : p \in StorePaths, l \in Lines}
        \cup {Editor("untitled", "Untitled-1", 0), Editor(None, None, 0)}

\* new EditorHistoryManager(context): the saved history is loaded, then every
\* visible editor of a file is recorded (previewMode is false in the new
\* object, so updateHistory does not skip)
NewEditorHistoryManager(saved, visible) ==
    IF visible.scheme = "file"
    THEN Store(Unshift(LoadedForm(saved), visible.path, visible.line), None)
    ELSE Store(LoadedForm(saved), None)

StoreInit ==
    /\ storage \in {<<>>, SavedForm(FullHistory)}
    /\ history = NewEditorHistoryManager(storage, Editor(None, None, 0)).history
    /\ previewMode = FALSE
    /\ previewedFiles = {}
    /\ lastOpenedFile = None
    /\ previousActiveEditor = NoEditor
    /\ lastHighlightDecoration = FALSE
    /\ liveDecorations = 0
    /\ activeEditor = None
    /\ docLine = [f \in OpenableFiles |-> 0]
    /\ picker = "closed"
    /\ mode = "standard"
    /\ items = <<>>
    /\ value = <<>>
    /\ tasks = {}
    /\ histAtOpen = <<>>
    /\ prevAtOpen = NoFile
    /\ accepted = None
    /\ previewed = {}
    /\ configuration = DefaultConfiguration
    /\ compiledDirRegexes = NotCompiled
    /\ compiledPatternRegexes = NotCompiled

notStoreVars ==
    <<previewVars, docLine, pickerVars, tasks, ghostVars>>

\* the host fires onDidChangeActiveTextEditor(e)
EditorActivated(e) ==
    /\ e.path # activeEditor
    /\ LET s == onDidChangeActiveTextEditor(Store(history, lastOpenedFile), e)
       IN  /\ history' = s.history
           /\ lastOpenedFile' = s.lastOpenedFile
           /\ storage' = SavedForm(s.history)
    /\ activeEditor' = e.path
    /\ UNCHANGED <<previewMode, previewedFiles, notStoreVars>>
    /\ UNCHANGED settingsVars

\* forceAddToHistory(p, l)
StoreForceAdd(p, l) ==
    /\ LET s == forceAddToHistory(Store(history, lastOpenedFile), p, l)
       IN  /\ history' = s.history
           /\ lastOpenedFile' = s.lastOpenedFile
           /\ storage' = SavedForm(s.history)
    /\ UNCHANGED <<previewMode, previewedFiles, activeEditor, notStoreVars>>
    /\ UNCHANGED settingsVars

\* setPreviewMode(m)
StoreSetPreviewMode(m) ==
    /\ previewMode' = setPreviewMode(m).previewMode
    /\ previewedFiles' = setPreviewMode(m).previewedFiles
    /\ UNCHANGED <<history, lastOpenedFile, storage, activeEditor, notStoreVars>>
    /\ UNCHANGED settingsVars

\* addPreviewedFile(p)
StoreAddPreviewed(p) ==
    /\ previewedFiles' = addPreviewedFile(p)
    /\ UNCHANGED <<history, previewMode, lastOpenedFile, storage, activeEditor,
                   notStoreVars>>
    /\ UNCHANGED settingsVars

\* the window is reloaded with editor e visible: a new manager is constructed
\* from the stored value
StoreRestart(e) ==
    /\ LET s == NewEditorHistoryManager(storage, e)
       IN  /\ history' = s.history
           /\ lastOpenedFile' = s.lastOpenedFile
           /\ storage' = IF e.scheme = "file" THEN SavedForm(s.history) ELSE storage
    /\ previewMode' = FALSE
    /\ previewedFiles' = {}
    /\ activeEditor' = e.path
    /\ UNCHANGED notStoreVars
    /\ UNCHANGED settingsVars

StoreNext ==
    \/ \E e \in StoreEditors : EditorActivated(e)
    \/ \E p \in StorePaths, l \in Lines : StoreForceAdd(p, l)
    \/ \E m \in BOOLEAN : StoreSetPreviewMode(m)
    \/ \E p \in StorePreviewed : StoreAddPreviewed(p)
    \/ \E e \in StoreEditors : StoreRestart(e)

StoreSpec == StoreInit /\ [][StoreNext]_vars

(***************************************************************************)
(* loadRecentEditorsList await by await: the loop runs over the history    *)
(* array itself (getHistory returns it, not a copy) and awaits fs.stat for *)
(* every entry it lists, while editor-change events may touch the history. *)
(***************************************************************************)
\* the handler suspended at fs.stat(item.uri), the loop at index
RecentLoadTask(active, index, item, results) ==
    [kind |-> "stat", active |-> active, index |-> index, item |-> item,
     results |-> results]

\* the loop from index on: the index of the next entry that is awaited, 0
\* when the loop ends (the array iterator reads the array as it is now)
nextAwaited(h, index, active) ==
    LET rest == {j \in index..Len(h) : h[j].path # active}
    IN  IF rest = {} THEN 0 ELSE CHOOSE j \in rest : \A k \in rest : j <= k

\* the picker was just shown in recent mode with three files in the history,
\* the most recent one active; loadRecentEditorsList is at its first await
RecentLoadInit ==
    /\ history \in {h \in [1..3 -> {[path |-> f, linePos |-> 0] : f \in OpenableFiles}] :
                       \A i, j \in 1..3 : i # j => h[i] # h[j]}
    /\ previewMode = TRUE
    /\ previewedFiles = {}
    /\ lastOpenedFile = None
    /\ storage = SavedForm(history)
    /\ previousActiveEditor = [path |-> history[1].path, line |-> 0, live |-> TRUE]
    /\ lastHighlightDecoration = FALSE
    /\ liveDecorations = 0
    /\ activeEditor = history[1].path
    /\ docLine = [f \in OpenableFiles |-> 0]
    /\ picker = "loading"
    /\ mode = "recent"
    /\ items = <<>>
    /\ value = <<>>
    /\ tasks = {RecentLoadTask(activeEditor, 2, history[2], <<>>)}
    /\ histAtOpen = history
    /\ prevAtOpen = [path |-> history[1].path, line |-> 0]
    /\ accepted = None
    /\ previewed = {}
    /\ configuration = DefaultConfiguration
    /\ compiledDirRegexes = NotCompiled
    /\ compiledPatternRegexes = NotCompiled

\* fs.stat resolves (exists) or rejects: the entry read before the await is
\* pushed or skipped, and the loop goes on to its next await or assigns the
\* items
StatDone(t, exists) ==
    /\ t \in tasks
    /\ t.kind = "stat"
    /\ LET results == IF exists
                      THEN Append(t.results, FileItem(t.item.path, t.item.linePos, <<>>))
                      ELSE t.results
           j == nextAwaited(history, t.index + 1, t.active)
       IN  IF j = 0
           THEN /\ items' = results
                /\ picker' = "open"
                /\ tasks' = {}
           ELSE /\ tasks' = {RecentLoadTask(t.active, j, history[j], results)}
                /\ UNCHANGED <<items, picker>>
    /\ UNCHANGED <<storeVars, previewVars, hostVars, mode, value, ghostVars>>
    /\ UNCHANGED settingsVars

RecentLoadNext ==
    \/ \E t \in tasks, exists \in BOOLEAN : StatDone(t, exists)
    \/ \E p \in OpenableFiles : EditorActivated(FileEditor(p, 0))

RecentLoadSpec == RecentLoadInit /\ [][RecentLoadNext]_vars

(***************************************************************************)
(* The ranking on its own: a query of the user and the files findFiles     *)
(* returned for it.  The files are ranked either by the fuzzysort variant  *)
(* of fuzzySearchFiles (searchUtils.ts) or by the variant that pipes the   *)
(* paths through an fzf process and reads its output chunk by chunk.       *)
(***************************************************************************)
MaxCandidates == 3

RankFiles ==
    {"a.ts", "b.ts", "src/Ab.ts", "lib/ba.ts", "node_modules/d.ts",
     "utils.ts", "lib/utils.ts", "src/lib/utils.ts", "src/pkg/app/utils.ts"}
RankQueries ==
    { <<"t", "s">>, <<"s", "a">>, <<"B", "A">>, <<"t", "s", " ", "a">> }

\* the files argument: distinct uris in the order findFiles returned them
RankInputs ==
    {f \in UNION {[1..n -> RankFiles] : n \in 1..MaxCandidates} :
        \A i, j \in 1..Len(f) : i # j => f[i] # f[j]}

\* one call of fuzzySearchFiles: its arguments, the output of the fzf
\* process not yet delivered, and searchResults
RankTask(files, q) ==
    [kind |-> "rank", files |-> files, query |-> q, stdout |-> <<>>,
     searchResults |-> <<>>]

\* fzf --filter q --no-sort: the input lines that match, in input order.
\* Every word of the query is a term; a term without upper case matches
\* whatever the case.
fzfFilter(files, q) ==
    SelectSeq(files, LAMBDA f : \A w \in SplitWords(q) :
        IF w = toLowerCase(w)
        THEN IsSubsequence(w, toLowerCase(relativePath(f)))
        ELSE IsSubsequence(w, relativePath(f)))

\* the score the 'data' handler gives to the line at index of its chunk,
\* multipliers in tenths
fzfScore(p, index) ==
    (1000 - index)
        * (IF shouldExcludeFile(p) THEN 1 ELSE 10)
        * (IF isLikelyLibraryPath(p) THEN 2 ELSE 10)
        * (IF hasDirectory(p, {"isort", "pylint", "autopep8", "black",
                               "flake8", "mypy"}) THEN 1 ELSE 10)
        * (IF pathDepth(p) <= 2 THEN 15
           ELSE IF pathDepth(p) <= 3 THEN 13
           ELSE IF pathDepth(p) >= 6 THEN 7 ELSE 10)

\* stdout.on('data'): the results pushed for the lines of one chunk
onData(lines) ==
    [i \in 1..Len(lines) |-> [uri |-> lines[i], score |-> fzfScore(lines[i], i - 1)]]

\* filenameResults of handleStandardSearch for the ranked matches
RankedItems(rs, q) == [i \in 1..Len(rs) |-> FileItem(rs[i].uri, 0, q)]

RankInit ==
    /\ history = <<>>
    /\ previewMode = FALSE
    /\ previewedFiles = {}
    /\ lastOpenedFile = None
    /\ storage = <<>>
    /\ previousActiveEditor = NoEditor
    /\ lastHighlightDecoration = FALSE
    /\ liveDecorations = 0
    /\ activeEditor = None
    /\ docLine = [f \in OpenableFiles |-> 0]
    /\ picker = "open"
    /\ mode = "standard"
    /\ items = <<>>
    /\ value \in RankQueries
    /\ tasks \in {{RankTask(f, value)} : f \in RankInputs}
    /\ histAtOpen = <<>>
    /\ prevAtOpen = NoFile
    /\ accepted = None
    /\ previewed = {}
    /\ configuration = DefaultConfiguration
    /\ compiledDirRegexes = NotCompiled
    /\ compiledPatternRegexes = NotCompiled

notRankVars ==
    <<storeVars, previewVars, hostVars, picker, mode, value, ghostVars>>

\* fuzzySearchFiles of searchUtils.ts, then the assignment of the items
RankWithFuzzysort(t) ==
    /\ t.kind = "rank"
    /\ LET rs == fuzzySearchFiles(t.files, t.query)
       IN  /\ tasks' = {[t EXCEPT !.kind = "ranked", !.searchResults = rs]}
           /\ items' = Take(RankedItems(rs, t.query), getMaxResults)
    /\ UNCHANGED notRankVars
    /\ UNCHANGED settingsVars

\* the fzf variant: spawn; the process will write its matches to stdout
FzfSpawn(t) ==
    /\ t.kind = "rank"
    /\ tasks' = {[t EXCEPT !.kind = "fzf", !.stdout = fzfFilter(t.files, t.query)]}
    /\ UNCHANGED <<notRankVars, items>>
    /\ UNCHANGED settingsVars

\* stdout 'data' with the next n lines of the output
FzfData(t, n) ==
    /\ t.kind = "fzf"
    /\ n \in 1..Len(t.stdout)
    /\ tasks' = {[t EXCEPT !.stdout = SubSeq(@, n + 1, Len(@)),
                           !.searchResults = @ \o onData(SubSeq(t.stdout, 1, n))]}
    /\ UNCHANGED <<notRankVars, items>>
    /\ UNCHANGED settingsVars

\* 'exit' with code 0 or 1, after the whole output was delivered
FzfExit(t) ==
    /\ t.kind = "fzf"
    /\ t.stdout = <<>>
    /\ LET rs == SortByScore(t.searchResults)
       IN  /\ tasks' = {[t EXCEPT !.kind = "fzfdone", !.searchResults = rs]}
           /\ items' = Take(RankedItems(rs, t.query), getMaxResults)
    /\ UNCHANGED notRankVars
    /\ UNCHANGED settingsVars

RankNext ==
    \/ \E t \in tasks : RankWithFuzzysort(t)
    \/ \E t \in tasks : FzfSpawn(t)
    \/ \E t \in tasks, n \in 1..MaxCandidates : FzfData(t, n)
    \/ \E t \in tasks : FzfExit(t)

RankSpec == RankInit /\ [][RankNext]_vars

(***************************************************************************)
(* The debounced show(): onDidChangeValue arms a 50 ms timer, held in      *)
(* searchDebounceTimer, whose callback starts the search.  A pending timer *)
(* is a suspended handler of kind "timer"; the one searchDebounceTimer     *)
(* refers to is the latest.  The searches are those of the fzf variant.    *)
(***************************************************************************)
\* clearTimeout(this.searchDebounceTimer): the timers left pending
clearTimeout_Keeps(T) ==
    {IF t.kind = "timer" THEN [t EXCEPT !.latest = FALSE] ELSE t : t \in T}
clearTimeout(T) == {t \in T : ~(t.kind = "timer" /\ t.latest)}

\* onDidChangeValue(value): the pending timer is cleared, a new one is armed
DebouncedChangeValue(q) ==
    /\ picker = "open"
    /\ q # value
    /\ value' = q
    /\ Cardinality(clearTimeout(tasks)) < MaxTasks
    /\ tasks' = clearTimeout(tasks)
                    \cup {[SearchTask("timer", q) EXCEPT !.latest = TRUE]}
    /\ UNCHANGED <<storeVars, previewVars, hostVars, picker, mode, items, ghostVars>>
    /\ UNCHANGED settingsVars

\* the timer elapses: its callback runs up to the first await of the search
\* it starts, for the value it was armed with
TimerFire(t) ==
    /\ t \in tasks
    /\ t.kind = "timer"
    /\ LET started ==
               IF Len(t.query) < 2
               THEN IF mode = "standard" THEN SearchTask("search", <<>>)
                    ELSE Task("load", activeEditor, 0)
               ELSE SearchTask("search", t.query)
       IN  /\ started \notin tasks
           /\ tasks' = (tasks \ {t}) \cup {started}
    /\ UNCHANGED <<storeVars, previewVars, hostVars, pickerVars, ghostVars>>
    /\ UNCHANGED settingsVars

\* handleStandardSearch / handleRecentEditorsSearch / loadRecentEditorsList
\* resume and assign the items; after the initial list, show() registers
\* the handlers
DebouncedSearchDone(t) ==
    /\ t \in tasks
    /\ t.kind \in {"load", "search"}
    /\ LET linePos(f) ==
               IF f \in PathsOf(history)
               THEN (CHOOSE e \in {history[i] : i \in 1..Len(history)} :
                         e.path = f).linePos
               ELSE 0
           files == IF mode = "standard" THEN SortedWorkspace ELSE PathSeq(history)
           rs == SortByScore(onData(fzfFilter(files, t.query)))
           shown == Take(rs, getMaxResults)
       IN  items' =
               IF mode = "recent" /\ t.kind = "load"
               THEN RecentEditorsList(t.path)
               ELSE [i \in 1..Len(shown) |->
                        FileItem(shown[i].uri,
                                 IF mode = "standard" THEN 0 ELSE linePos(shown[i].uri),
                                 t.query)]
    /\ picker' = IF picker = "loading" THEN "open" ELSE picker
    /\ tasks' = tasks \ {t}
    /\ UNCHANGED <<storeVars, previewVars, hostVars, mode, value, ghostVars>>
    /\ UNCHANGED settingsVars

NextDebounce ==
    \/ \E p \in TextFiles : UserActivate(p)
    \/ \E m \in {"standard", "recent"} : Show(m)
    \/ \E q \in Queries : DebouncedChangeValue(q)
    \/ \E t \in tasks : TimerFire(t)
    \/ \E t \in tasks : DebouncedSearchDone(t)
    \/ Hide
    \/ \E t \in tasks : RestoreDone(t)

\* sessions of the debounced show() in which the user types queries and
\* dismisses the picker
DebounceSpec == Init /\ [][NextDebounce]_vars

(***************************************************************************)
(* The lists of the standard mode on their own: a workspace as findFiles   *)
(* returns it, the documents of the visible editors, a value of the input  *)
(* and a maxResults setting; onDidChangeValue assigns the items.           *)
(***************************************************************************)
MaxShown == 2

ListQueries == { <<>>, <<"t">>, <<"t", "s">>, <<"a", ".", "t">> }

\* the documents of window.visibleTextEditors
ListVisible == { <<>>, <<"a.ts">>, <<"b.ts", "a.ts">>, <<"node_modules/d.ts">> }

ListTask(found, visible) ==
    [kind |-> "list", found |-> found, visible |-> visible]

ListInit ==
    /\ history = <<>>
    /\ previewMode = FALSE
    /\ previewedFiles = {}
    /\ lastOpenedFile = None
    /\ storage = <<>>
    /\ previousActiveEditor = NoEditor
    /\ lastHighlightDecoration = FALSE
    /\ liveDecorations = 0
    /\ activeEditor = None
    /\ docLine = [f \in OpenableFiles |-> 0]
    /\ picker = "open"
    /\ mode = "standard"
    /\ items = <<>>
    /\ value \in ListQueries
    /\ tasks \in {{ListTask(f, v)} : f \in RankInputs, v \in ListVisible}
    /\ histAtOpen = <<>>
    /\ prevAtOpen = NoFile
    /\ accepted = None
    /\ previewed = {}
    /\ configuration \in
           {[DefaultConfiguration EXCEPT !.maxResults = n,
                                         !.contentSearchEnabled = c] :
                n \in 1..MaxShown, c \in BOOLEAN}
    /\ compiledDirRegexes = NotCompiled
    /\ compiledPatternRegexes = NotCompiled

notListVars ==
    <<storeVars, previewVars, hostVars, picker, mode, value, ghostVars,
      settingsVars>>

\* onDidChangeValue with less than 2 characters: loadInitialFilesList
ListInitialFiles(t) ==
    /\ t.kind = "list"
    /\ Len(value) < 2
    /\ items' = InitialFilesListOf(t.found, t.visible)
    /\ tasks' = {[t EXCEPT !.kind = "loaded"]}
    /\ UNCHANGED notListVars

\* onDidChangeValue with 2 characters or more: handleStandardSearch
ListStandardSearch(t) ==
    /\ t.kind = "list"
    /\ Len(value) >= 2
    /\ items' = StandardSearchItemsOf(t.found, value)
    /\ tasks' = {[t EXCEPT !.kind = "searched"]}
    /\ UNCHANGED notListVars

ListNext ==
    \/ \E t \in tasks : ListInitialFiles(t)
    \/ \E t \in tasks : ListStandardSearch(t)

ListSpec == ListInit /\ [][ListNext]_vars

(***************************************************************************)
(* The exclusion settings (settingsUtils.ts, the variant with compiled     *)
(* matchers).  A compiled matcher is the sequence of the tokens of its     *)
(* regular expression: a character stands for itself (every metacharacter  *)
(* of the source text is escaped), "**" for .* and "*" for [^/]*.          *)
(***************************************************************************)
\* globToRegExp(glob)
RECURSIVE globToRegExp(_)
globToRegExp(glob) ==
    IF glob = <<>> THEN <<>>
    ELSE IF Len(glob) >= 2 /\ glob[1] = "*" /\ glob[2] = "*"
    THEN <<"**">> \o globToRegExp(SubSeq(glob, 3, Len(glob)))
    ELSE <<Head(glob)>> \o globToRegExp(Tail(glob))

\* the matcher of a directory: new RegExp(`/${escaped}/`)
dirToRegExp(dir) == <<"/">> \o dir \o <<"/">>

\* the regular expression matches a prefix of s
RECURSIVE MatchesPrefix(_, _)
MatchesPrefix(re, s) ==
    IF re = <<>> THEN TRUE
    ELSE IF Head(re) = "**"
    THEN \E k \in 0..Len(s) : MatchesPrefix(Tail(re), SubSeq(s, k + 1, Len(s)))
    ELSE IF Head(re) = "*"
    THEN \E k \in 0..Len(s) :
            /\ \A i \in 1..k : s[i] # "/"
            /\ MatchesPrefix(Tail(re), SubSeq(s, k + 1, Len(s)))
    ELSE s # <<>> /\ Head(s) = Head(re) /\ MatchesPrefix(Tail(re), Tail(s))

\* regex.test(s): the expression is not anchored
RegExpTest(re, s) ==
    \E k \in 0..Len(s) : MatchesPrefix(re, SubSeq(s, k + 1, Len(s)))

\* uri.fsPath of a file of the workspace folder /ws, as characters
fsPath(p) == <<"/">> \o Chars("ws") \o <<"/">> \o relativePath(p)

\* buildExcludeRegexCaches(): the two caches it assigns
buildExcludeRegexCaches ==
    [dirs |-> Compiled({dirToRegExp(Chars(d)) :
                            d \in configuration.excludeDirectories}),
     patterns |-> Compiled({globToRegExp(Chars(g)) :
                                g \in configuration.excludePatterns})]

\* shouldExcludeFile(filePath) with the caches it finds: the caches it
\* leaves and its answer
shouldExcludeFileCached(p) ==
    LET caches == IF ~compiledDirRegexes.compiled \/ ~compiledPatternRegexes.compiled
                  THEN buildExcludeRegexCaches
                  ELSE [dirs |-> compiledDirRegexes,
                        patterns |-> compiledPatternRegexes]
    IN  [dirs |-> caches.dirs,
         patterns |-> caches.patterns,
         answer |-> \/ \E re \in caches.dirs.regexes : RegExpTest(re, fsPath(p))
                    \/ \E re \in caches.patterns.regexes : RegExpTest(re, fsPath(p))]

SettingsPaths ==
    {"a.ts", "node_modules/d.ts", "build/a.ts", "src/build", "src/a.log",
     "a.log.ts"}
DirectorySettings == { {}, {"build"}, DefaultConfiguration.excludeDirectories }
PatternSettings == { {}, {"**/*.log"}, DefaultConfiguration.excludePatterns }

\* one call of shouldExcludeFile: its argument, its answer, whether it built
\* the caches, and the configuration in force
ExcludeCall(p, answer) ==
    [kind |-> "shouldExcludeFile", path |-> p, answer |-> answer,
     built |-> ~compiledDirRegexes.compiled \/ ~compiledPatternRegexes.compiled,
     excludeDirectories |-> configuration.excludeDirectories,
     excludePatterns |-> configuration.excludePatterns]

notSettingsVars ==
    <<storeVars, previewVars, hostVars, pickerVars, ghostVars>>

\* the user edits searchPreview.search.excludeDirectories
SetExcludeDirectories(dirs) ==
    /\ dirs # configuration.excludeDirectories
    /\ configuration' = [configuration EXCEPT !.excludeDirectories = dirs]
    /\ UNCHANGED <<notSettingsVars, tasks, compiledDirRegexes,
                   compiledPatternRegexes>>

\* the user edits searchPreview.search.excludePatterns
SetExcludePatterns(pats) ==
    /\ pats # configuration.excludePatterns
    /\ configuration' = [configuration EXCEPT !.excludePatterns = pats]
    /\ UNCHANGED <<notSettingsVars, tasks, compiledDirRegexes,
                   compiledPatternRegexes>>

\* SettingsManager.shouldExcludeFile(p)
ShouldExcludeFile(p) ==
    /\ LET r == shouldExcludeFileCached(p)
       IN  /\ compiledDirRegexes' = r.dirs
           /\ compiledPatternRegexes' = r.patterns
           /\ tasks' = {ExcludeCall(p, r.answer)}
    /\ UNCHANGED <<notSettingsVars, configuration>>

SettingsNext ==
    \/ \E dirs \in DirectorySettings : SetExcludeDirectories(dirs)
    \/ \E pats \in PatternSettings : SetExcludePatterns(pats)
    \/ \E p \in SettingsPaths : ShouldExcludeFile(p)

\* the extension starts with the default settings and empty caches
SettingsSpec == Init /\ [][SettingsNext]_vars

(***************************************************************************)
(* Properties.                                                             *)
(***************************************************************************)
\* the session is over and no handler is suspended
Quiescent == picker = "closed" /\ tasks = {}
\* the session in progress, or just over, had no acceptance
Cancelled == accepted = None

\* C1: after a session that was dismissed without acceptance, once all
\* pending handlers have completed, the history holds the same entries in the
\* same order as when the session opened.
C1_HistoryUnchangedAfterCancel ==
    (Quiescent /\ Cancelled) => history = histAtOpen

\* C2: if a file was active when the session opened, then after a dismissal
\* without acceptance, once the handlers have completed, that file is the
\* active document again with the cursor where it was.
C2_PreviousEditorRestored ==
    (Quiescent /\ Cancelled /\ prevAtOpen # NoFile) =>
        /\ activeEditor = prevAtOpen.path
        /\ docLine[prevAtOpen.path] = prevAtOpen.line

\* C3: after a candidate was accepted and all handlers have completed, the
\* front entry of the history is the accepted path.
C3_AcceptedIsFront ==
    (Quiescent /\ accepted # None) =>
        (history # <<>> /\ history[1].path = accepted)

\* C4: after a session that ended with an acceptance, a candidate that was
\* only previewed has no entry unless it had one before the session.
C4_NoPreviewOnlyEntries ==
    (Quiescent /\ accepted # None) =>
        \A x \in previewed \ {accepted} :
            x \in PathsOf(history) => x \in PathsOf(histAtOpen)

\* a preview opened by peekItem becomes the active editor in this step
PreviewShown == \E t \in tasks : PeekDone(t)

\* C5: from setPreviewMode(true) on, through addPreviewedFile calls, the
\* previewed files becoming the active editor and the closing
\* setPreviewMode(false), with no forceAddToHistory in between, the set of
\* paths of the history stays what it was when preview mode started.
C5_SuppressedPathsNotCommitted ==
    [][(previewMode /\ accepted' = None) =>
          PathsOf(history') = PathsOf(histAtOpen)]_vars

\* C5 is exercised: preview mode was left without acceptance while a previewed
\* file that had no entry is the active editor
C5_Witness ==
    /\ picker = "closed"
    /\ Cancelled
    /\ ~previewMode
    /\ activeEditor \in previewed
    /\ activeEditor \notin PathsOf(histAtOpen)
    /\ PathsOf(history) = PathsOf(histAtOpen)

\* C6: in every session, while it is browsing, each time the preview of a
\* highlighted candidate becomes the active editor its path is registered as
\* previewed, and the active-editor event leaves the order and the entries of
\* the history unchanged.
C6_PreviewLeavesHistoryUnchanged ==
    [][\A t \in tasks :
          (previewMode /\ PeekDone(t)) =>
              (t.path \in previewedFiles /\ history' = history)]_vars

\* C7: the previewMode flag is on exactly from the opening of a session until
\* the session is left by acceptance, by hide, or by a failed open of the
\* accepted file; after the session it is off until the next one opens.
C7_PreviewModeReleased ==
    previewMode <=> (picker # "closed" /\ accepted = None)

\* C7 is exercised: a session ended with the open of the accepted file
\* rejected (the accepted file never became the active editor)
C7_Witness ==
    /\ Quiescent
    /\ accepted # None
    /\ lastOpenedFile = accepted
    /\ activeEditor # accepted
    /\ ~previewMode

\* no handler that assigns the list of items is suspended
SearchIdle ==
    picker = "open" /\ \A t \in tasks : t.kind \notin {"load", "search", "content"}

\* the items the search for query q computes
ItemsFor(q) ==
    IF mode = "standard" THEN StandardSearchItems(q) ELSE RecentSearchItems(q)

\* C8: once the searches started for an earlier query and for the current
\* query have all completed, the displayed items are those computed for the
\* current query, whatever the order of completion.
C8_StaleSearchDiscarded ==
    (SearchIdle /\ Len(value) >= 2) => items = ItemsFor(value)

\* C9: once the session has ended and all pending handlers have completed, no
\* highlight decoration created by the session is still applied.
C9_DecorationsCleared ==
    Quiescent => liveDecorations = 0

\* C10: when the open of the highlighted candidate fails during browsing and
\* no other preview is pending, the session stays open, the history is not
\* written and no highlight decoration (which could only be that of an
\* earlier candidate) remains applied.
C10_FailedPeekLeavesNoHighlight ==
    [][\A t \in tasks :
          (/\ PeekFail(t)
           /\ t.latest
           /\ PendingPeeks = 1
           /\ picker = "open"
           /\ previewMode) =>
              /\ picker' = "open"
              /\ history' = history
              /\ liveDecorations' = 0]_vars

\* C11: after any sequence of updateHistory and forceAddToHistory calls the
\* history holds at most one entry per path.
C11_OneEntryPerPath ==
    Cardinality(PathsOf(history)) = Len(history)

\* C11 is exercised: the tail entry of a full history was touched again and
\* moved to the front
C11_Witness ==
    /\ Len(history) = MAX_HISTORY_SIZE
    /\ history[1].path = StoreFileName(MAX_HISTORY_SIZE)
    /\ history[2].path = StoreFileName(1)

\* C12: the history never holds more than MAX_HISTORY_SIZE entries, and the
\* insertion of a path without entry into a full history evicts the tail
\* entry and nothing else.
C12_CapacityAndEviction ==
    [][/\ Len(history') <= MAX_HISTORY_SIZE
       /\ (/\ Len(history) = MAX_HISTORY_SIZE
           /\ history' # history
           /\ history'[1].path \notin PathsOf(history)) =>
              Tail(history') = Take(history, MAX_HISTORY_SIZE - 1)]_vars

\* C12 is exercised: a file without entry was inserted into the full history
\* and the tail entry is gone
C12_Witness ==
    /\ Len(history) = MAX_HISTORY_SIZE
    /\ history[1].path = "a.ts"
    /\ StoreFileName(MAX_HISTORY_SIZE) \notin PathsOf(history)
    /\ history[2].path = StoreFileName(1)

\* path p has exactly one entry in h, the front one
OnceAtFront(h, p) ==
    /\ h # <<>>
    /\ h[1].path = p
    /\ Cardinality({i \in 1..Len(h) : h[i].path = p}) = 1

\* C13: touching the same path twice in a row (two forceAddToHistory calls, or
\* two updateHistory calls outside preview mode) leaves exactly one entry of
\* the path, at the front, and the list of paths of the first touch.
C13_TouchTwice ==
    \A p \in StorePaths, l1 \in Lines, l2 \in Lines :
        LET s0 == Store(history, lastOpenedFile)
            f1 == forceAddToHistory(s0, p, l1)
            f2 == forceAddToHistory(f1, p, l2)
            u1 == updateHistory(s0, p, l1)
            u2 == updateHistory(u1, p, l2)
        IN  /\ OnceAtFront(f2.history, p)
            /\ PathSeq(f2.history) = PathSeq(f1.history)
            /\ ~previewMode =>
                  /\ OnceAtFront(u2.history, p)
                  /\ PathSeq(u2.history) = PathSeq(u1.history)

\* C13 is exercised: outside preview mode an editor of a.ts became active, so
\* that both listeners called updateHistory for it, one after the other
C13_Witness ==
    /\ ~previewMode
    /\ activeEditor = "a.ts"
    /\ lastOpenedFile = None
    /\ Len(history) > 1
    /\ OnceAtFront(history, "a.ts")

\* C14: setPreviewMode(false) empties the set of previewed files and leaves
\* the history as it is; setPreviewMode(true) and addPreviewedFile(p) leave
\* the history as it is.
C14_PreviewModeFrame ==
    [][/\ StoreSetPreviewMode(FALSE) => (previewedFiles' = {} /\ history' = history)
       /\ StoreSetPreviewMode(TRUE) => history' = history
       /\ \A p \in StorePreviewed : StoreAddPreviewed(p) => history' = history]_vars

\* C14 is exercised: a.ts became the active editor while it was suppressed,
\* preview mode was then left, and a.ts has no entry
C14_Witness ==
    /\ ~previewMode
    /\ previewedFiles = {}
    /\ activeEditor = "a.ts"
    /\ "a.ts" \notin PathsOf(history)
    /\ history # <<>>

\* C15: an editor whose document is not a local file becoming active, or
\* being visible when the manager is constructed, leaves the history and the
\* stored value unchanged.
C15_NonFileIsNoOp ==
    [][\A e \in StoreEditors :
          (e.scheme # "file" /\ (EditorActivated(e) \/ StoreRestart(e))) =>
              (history' = history /\ storage' = storage)]_vars

\* C15 is exercised: an untitled document is the active editor and has no
\* entry in a history that has entries
C15_Witness ==
    /\ activeEditor = "Untitled-1"
    /\ history # <<>>
    /\ "Untitled-1" \notin PathsOf(history)

Ranked == {t \in tasks : t.kind \in {"ranked", "fzfdone"}}
UrisOf(rs) == {rs[i].uri : i \in 1..Len(rs)}
InOrder(q, p) ==
    \/ IsSubsequence(toLowerCase(q), toLowerCase(basename(p)))
    \/ IsSubsequence(toLowerCase(q), toLowerCase(relativePath(p)))
WordsInOrder(q, p) ==
    \/ \A w \in SplitWords(q) : IsSubsequence(toLowerCase(w), toLowerCase(basename(p)))
    \/ \A w \in SplitWords(q) : IsSubsequence(toLowerCase(w), toLowerCase(relativePath(p)))

Alphabet ==
    <<" ", ".", "/", "A", "B", "_", "a", "b", "c", "d", "e", "g", "i", "l",
      "m", "n", "o", "p", "r", "s", "t", "u", "x", "y", "z">>
CharCode(c) == CHOOSE i \in 1..Len(Alphabet) : Alphabet[i] = c

\* a < b as strings
RECURSIVE LexLess(_, _)
LexLess(a, b) ==
    IF b = <<>> THEN FALSE
    ELSE IF a = <<>> THEN TRUE
    ELSE IF Head(a) # Head(b) THEN CharCode(Head(a)) < CharCode(Head(b))
    ELSE LexLess(Tail(a), Tail(b))

\* the tie-break: the shorter relative path first, then the smaller one
TieBefore(p1, p2) ==
    \/ Len(relativePath(p1)) < Len(relativePath(p2))
    \/ /\ Len(relativePath(p1)) = Len(relativePath(p2))
       /\ LexLess(relativePath(p1), relativePath(p2))

\* C18 as stated: the list the ranking function returns is in descending
\* order of score, and of two candidates with the same score the one with the
\* shorter relative path comes first, or, the lengths being equal, the one
\* whose relative path is lexicographically smaller.
C18_Counterexample ==
    \A t \in Ranked : \A i, j \in 1..Len(t.searchResults) : i < j =>
        LET a == t.searchResults[i]
            b == t.searchResults[j]
        IN  \/ a.score > b.score
            \/ a.score = b.score /\ TieBefore(a.uri, b.uri)


\* the uris of a result list, in its order
ResultOrder(rs) == [i \in 1..Len(rs) |-> rs[i].uri]

\* the run of the fzf variant in which the whole output arrives as one chunk
OneChunkRun(files, q) == SortByScore(onData(fzfFilter(files, q)))

\* C19 as stated: the ranking of given candidates for a given query is the
\* same in every run; for the variant that reads the output of a subprocess,
\* the returned order does not depend on how the output is split into chunks,
\* so every run returns the order of the run that receives one chunk.
C19_Counterexample ==
    \A t \in tasks : t.kind = "fzfdone" =>
        ResultOrder(t.searchResults) = ResultOrder(OneChunkRun(t.files, t.query))


\* C20 as stated: whatever the query and the mode, no item of the displayed
\* list is a file that the exclusion filter rejects.
C20_Counterexample ==
    picker = "open" =>
        \A i \in 1..Len(items) : ~shouldExcludeFile(items[i].filePath)


\* the items of a list that name files, in their order
FileItemsOf(its) == SelectSeq(its, LAMBDA it : it.type = "file")

\* the candidates of a search: the files found that are neither binary nor
\* excluded and that match the query, each with the score of its own
candidateScore(f, q) == fuzzySearchFiles(<<f>>, q)[1].score
Candidates(found, q) ==
    {f \in {found[i] : i \in 1..Len(found)} :
        /\ ~isBinaryFile(f)
        /\ ~shouldExcludeFile(f)
        /\ fuzzySearchFiles(<<f>>, q) # <<>>}

\* C21: after a search for a query of 2 characters or more the displayed
\* list has at most maxResults items, its file items are candidates in
\* descending order of score, and a candidate is missing only if maxResults
\* file items are displayed and none of them has a lower score: the cut
\* comes after the scoring and the sort of all candidates.
C21_CapAfterSort ==
    \A t \in tasks : t.kind = "searched" =>
        LET shown == FileItemsOf(items)
            shownPaths == {shown[i].filePath : i \in 1..Len(shown)}
            cands == Candidates(t.found, value)
        IN  /\ Len(items) <= getMaxResults
            /\ shownPaths \subseteq cands
            /\ SubSeq(items, 1, Len(shown)) = shown
            /\ \A i, j \in 1..Len(shown) : i < j =>
                   candidateScore(shown[i].filePath, value)
                       >= candidateScore(shown[j].filePath, value)
            /\ \A c \in cands \ shownPaths :
                   /\ Len(shown) = getMaxResults
                   /\ \A s \in shownPaths :
                          candidateScore(s, value) >= candidateScore(c, value)

C21_Witness ==
    \E t \in tasks :
        /\ t.kind = "searched"
        /\ Cardinality(Candidates(t.found, value)) > getMaxResults
        /\ Len(items) = getMaxResults
        /\ \E i \in 1..Len(t.found) :
               t.found[i] = items[1].filePath /\ i > getMaxResults


\* C22 as stated: for the empty query the displayed list is the default list,
\* the files of the visible editors first and the remaining files after
\* them, and it never has more than maxResults items.
C22_Counterexample ==
    \A t \in tasks : (t.kind = "loaded" /\ value = <<>>) =>
        LET isOpen(f) == \E i \in 1..Len(t.visible) : t.visible[i] = f
        IN  /\ Len(items) <= getMaxResults
            /\ \A i, j \in 1..Len(items) :
                   (i < j /\ isOpen(items[j].filePath)) => isOpen(items[i].filePath)


\* C23 as stated: a query of 1 character is treated as the empty query; once
\* the handlers have completed, the displayed list is the list the empty
\* query produces in the same state.
C23_Counterexample ==
    (SearchIdle /\ Len(value) = 1) =>
        items = IF mode = "standard" THEN InitialFilesList
                ELSE RecentEditorsList(activeEditor)


\* the answer the settings of a call give without any cache
freshAnswer(p, dirs, pats) ==
    \/ \E d \in dirs : RegExpTest(dirToRegExp(Chars(d)), fsPath(p))
    \/ \E g \in pats : RegExpTest(globToRegExp(Chars(g)), fsPath(p))

\* C24 as stated: whatever changes of excludeDirectories and excludePatterns
\* come between the calls, every call of shouldExcludeFile answers according
\* to the configuration in force at the time of the call.
C24_Counterexample ==
    \A t \in tasks : t.kind = "shouldExcludeFile" =>
        t.answer = freshAnswer(t.path, t.excludeDirectories, t.excludePatterns)


\* the regular expression matches the whole of s
RECURSIVE MatchesAll(_, _)
MatchesAll(re, s) ==
    IF re = <<>> THEN s = <<>>
    ELSE IF Head(re) = "**"
    THEN \E k \in 0..Len(s) : MatchesAll(Tail(re), SubSeq(s, k + 1, Len(s)))
    ELSE IF Head(re) = "*"
    THEN \E k \in 0..Len(s) :
            /\ \A i \in 1..k : s[i] # "/"
            /\ MatchesAll(Tail(re), SubSeq(s, k + 1, Len(s)))
    ELSE s # <<>> /\ Head(s) = Head(re) /\ MatchesAll(Tail(re), Tail(s))

\* the relative path matches the glob pattern, as a whole
GlobMatches(g, p) == MatchesAll(globToRegExp(Chars(g)), <<"/">> \o relativePath(p))

\* a segment of the relative path is one of the directory names
hasSegment(p, dirs) == \E i \in 1..Len(Segments(p)) : Segments(p)[i] \in dirs

\* C25 as stated: with matchers compiled from the configuration in force,
\* shouldExcludeFile answers true exactly if a segment of the path, the
\* first, a middle or the last one, is a configured directory name or the
\* relative path matches a configured glob pattern.
C25_Counterexample ==
    \A t \in tasks : (t.kind = "shouldExcludeFile" /\ t.built) =>
        t.answer = (\/ hasSegment(t.path, t.excludeDirectories)
                    \/ \E g \in t.excludePatterns : GlobMatches(g, t.path))


\* the adjusted score of a file on one of its two targets, or -1 if the
\* target does not match; the basename counts double
targetScore(f, q, target, weight) ==
    IF fuzzyMatch(q, target)
    THEN weight * AdjustedScore(f, FuzzyScore(q, target), FALSE)
    ELSE -1
Max(a, b) == IF a >= b THEN a ELSE b

libraryDirs ==
    {"lib", "libs", "vendor", "node_modules", "dist", "build", "venv", "env"}

\* two files with the same raw match score on both targets, at the same depth
sameRawAndDepth(f, g, q) ==
    /\ fuzzyMatch(q, basename(f)) = fuzzyMatch(q, basename(g))
    /\ FuzzyScore(q, basename(f)) = FuzzyScore(q, basename(g))
    /\ FuzzyScore(q, relativePath(f)) = FuzzyScore(q, relativePath(g))
    /\ pathDepth(f) = pathDepth(g)

\* C27 as stated: a candidate with a library directory among the segments
\* of its relative path, the first segment included, is penalised, so it
\* never ranks above a candidate outside library directories that has the
\* same raw match score and the same depth.
C27_Counterexample ==
    \A t \in tasks : t.kind = "ranked" =>
        \A i, j \in 1..Len(t.searchResults) :
            LET f == t.searchResults[i].uri
                g == t.searchResults[j].uri
            IN  (/\ i < j
                 /\ hasSegment(f, libraryDirs)
                 /\ ~hasSegment(g, libraryDirs)
                 /\ sameRawAndDepth(f, g, t.query))
                => t.searchResults[i].score < t.searchResults[j].score


\* the score of a file whose utility multiplier is factor, in tenths: the
\* greater of its two target scores, the basename counted double
scoreWithUtility(f, q, factor) ==
    LET on(target, weight) ==
            IF fuzzyMatch(q, target)
            THEN weight * 10 * FuzzyScore(q, target) * pathFactors(f) * factor
            ELSE -1
    IN  Max(on(basename(f), 2), on(relativePath(f), 1))

\* C28 as stated: a file with a generic utility name gets the 0.7 multiplier
\* unless its relative path has at most 3 segments, and then it gets no
\* utility penalty.
C28_Counterexample ==
    \A t \in tasks : t.kind = "ranked" =>
        \A i \in 1..Len(t.searchResults) :
            LET f == t.searchResults[i].uri
            IN  isUtilityName(f) =>
                    t.searchResults[i].score =
                        scoreWithUtility(f, t.query,
                                         IF pathDepth(f) <= 3 THEN 10 ELSE 7)

\* C28 amended: a file with a generic utility name gets the 0.7 multiplier if
\* its relative path has more than 3 segments or lies in a library
\* directory; a utility file at depth 3 or less outside library directories
\* gets no utility penalty.
C28_UtilityPenalty ==
    \A t \in tasks : t.kind = "ranked" =>
        \A i \in 1..Len(t.searchResults) :
            LET f == t.searchResults[i].uri
            IN  isUtilityName(f) =>
                    t.searchResults[i].score =
                        scoreWithUtility(f, t.query,
                            IF pathDepth(f) <= 3 /\ ~hasDirectory(f, libraryDirs)
                            THEN 10 ELSE 7)

C28_Witness ==
    \E t \in tasks :
        /\ t.kind = "ranked"
        /\ {"utils.ts", "src/lib/utils.ts", "src/pkg/app/utils.ts"}
               \subseteq UrisOf(t.searchResults)


\* C29 as stated: in a session of the recent mode the file of the editor
\* that was active when the command was run is never among the displayed
\* items, not in the initial list, not after a query, not after the query is
\* cleared while a preview shows another file.
C29_Counterexample ==
    (picker # "closed" /\ mode = "recent") =>
        \A i \in 1..Len(items) : items[i].filePath # prevAtOpen.path


\* the index of the entry of path p in the history
historyIndex(p) == CHOOSE i \in 1..Len(history) : history[i].path = p

PendingTimers == {t \in tasks : t.kind = "timer"}

\* the searches a step starts
StartedSearches == {t \in tasks' \ tasks : t.kind \in {"search", "load"}}

\* C31: query changes that follow one another before the debounce timer
\* elapses start one search, for the last query: at most one timer is ever
\* pending, it is armed with the current value, a change of the value starts
\* no search, and the one search that an elapsing timer starts is the search
\* for the current value.
C31_Coalesced ==
    [][/\ Cardinality(PendingTimers') <= 1
       /\ picker' = "open" => \A t \in PendingTimers' : t.query = value'
       /\ picker = "open" =>
             /\ value' # value => StartedSearches = {}
             /\ Cardinality(StartedSearches) <= 1
             /\ \A s \in StartedSearches :
                   /\ PendingTimers # {} /\ PendingTimers' = {}
                   /\ IF Len(value) < 2
                      THEN s \in {SearchTask("search", <<>>),
                                  Task("load", activeEditor, 0)}
                      ELSE s = SearchTask("search", value)]_vars

C31_Witness ==
    /\ picker = "open"
    /\ PendingTimers = {}
    /\ Len(value) >= 2
    /\ \E t \in tasks : t.kind = "search" /\ t.query = value
    /\ Cardinality({t \in tasks : t.kind = "search"}) = 1
    /\ items # <<>>


\* a step in which a pending restore of the previous editor ends with its
\* showTextDocument rejected: the handler is gone and the reference to the
\* previous editor was not dropped
RestoreFailed ==
    /\ previousActiveEditor # NoEditor
    /\ previousActiveEditor' = previousActiveEditor
    /\ \E t \in tasks : t.kind = "restore" /\ t \notin tasks'

\* C32: when the restore of the previous editor fails, the failure is caught
\* and the restore is not retried; preview mode is off, the suppression set
\* is empty and the history, its stored form included, is as it was before
\* the failure.
C32_FailedRestoreEndsIdle ==
    [][RestoreFailed =>
          /\ \A t \in tasks' : t.kind # "restore"
          /\ ~previewMode'
          /\ previewedFiles' = {}
          /\ <<history, lastOpenedFile, storage>>' = <<history, lastOpenedFile, storage>>
          /\ activeEditor' = activeEditor]_vars

C32_Witness ==
    /\ picker = "closed"
    /\ tasks = {}
    /\ previousActiveEditor # NoEditor
    /\ activeEditor # previousActiveEditor.path
    /\ previewed # {}


\* C33 as stated: for a query of 2 characters, or with content search
\* disabled, the displayed list holds file-name items only, once the
\* handlers have completed.
C33_Counterexample ==
    (SearchIdle /\ (Len(value) = 2 \/ ~isContentSearchEnabled)) =>
        \A i \in 1..Len(items) : items[i].type = "file"


\* C34 as stated: at every point of a session at most one line-highlight
\* decoration is live (created and not yet disposed), however the
\* active-candidate events interleave with the completion of pending
\* preview opens.
C34_Counterexample ==
    picker = "open" => liveDecorations <= 1


\* C35 as stated: after a candidate was accepted and its document opened,
\* the previously active file is not restored: once all handlers have
\* completed, the active document is the accepted file, also when the picker
\* hides while openSelectedFile still awaits the open.
\* Sessions without any preview are enough: no peekItem is involved.
C35_Counterexample ==
    (Quiescent /\ accepted # None /\ ~isBinaryFile(accepted) /\ previewed = {}) =>
        activeEditor = accepted


\* C36 as stated: in every reachable state, whenever the preview mode of the
\* history is off its set of previewed files is empty, the states between
\* the acceptance of a candidate and the hiding of the picker included.
C36_Counterexample ==
    ~previewMode => previewedFiles = {}


\* C37 as stated: once the picker is hidden and disposed, no search is
\* started: a debounce timer that is pending when the picker hides takes no
\* effect afterwards.  (That the items of the disposed picker are not
\* assigned either is the weaker half, left out of the formula.)
C37_Counterexample ==
    [][(picker = "closed" /\ picker' = "closed") => StartedSearches = {}]_vars


\* C38 as stated: the history is written before the open of the accepted file
\* is attempted; when that open fails, the accepted path is the front entry
\* of the history and preview mode is off, and the restore that the hiding of
\* the picker then starts makes the previously active file the active one.
C38_Counterexample ==
    [][/\ (\E t \in tasks : AcceptFail(t)) =>
              /\ history' # <<>>
              /\ Head(history').path = accepted
              /\ ~previewMode'
       /\ \A t \in tasks :
              (/\ RestoreDone(t)
               /\ accepted # None
               /\ previousActiveEditor # NoEditor
               /\ prevAtOpen # NoFile
               /\ \A r \in tasks : r.kind \notin {"accept", "show"}) =>
                  /\ activeEditor' = prevAtOpen.path
                  /\ ~previewMode']_vars


\* C39: a touch of path p (updateHistory that is not skipped, or
\* forceAddToHistory) changes the position of p only: the entries of the
\* other paths follow the new front entry in their former order, each with
\* its stored line, except that the tail entry is gone when p had no entry
\* and the history was full.
C39_TouchFrame ==
    [][history' # history =>
          LET p == history'[1].path
              others == SelectSeq(history, LAMBDA e : e.path # p)
          IN  Tail(history') =
                  IF p \notin PathsOf(history) /\ Len(history) = MAX_HISTORY_SIZE
                  THEN SubSeq(others, 1, MAX_HISTORY_SIZE - 1)
                  ELSE others]_vars

C39_Witness ==
    /\ Len(history) = MAX_HISTORY_SIZE
    /\ history[1].path = "b.ts"
    /\ history[2].path = "a.ts"
    /\ history[2].linePos # 0
    /\ history[3].path = StoreFileName(1)


\* C40 as stated: the displayed list never holds the same file twice, also
\* when an editor-change event touches the history while
\* loadRecentEditorsList awaits the check of a file in the middle of its loop
\* over the history.
C40_Counterexample ==
    (picker = "open" /\ mode = "recent" /\ value = <<>>) =>
        \A i, j \in 1..Len(items) : i # j => items[i].filePath # items[j].filePath

====
